---- MODULE Spec2Model ----
\* The name-addressed CRUD client of pkg/rest/client.go (DynatraceClient and its
\* implementation dynatraceClientImpl) running against a remote configuration
\* API.  Every HTTP round trip is one atomic step; an operation that makes two
\* round trips (ReadByName, UpsertByName, DeleteByName) is two steps, so that
\* calls of different clients interleave between them.
EXTENDS Integers, Sequences, FiniteSets, TLC

-----------------------------------------------------------------------------
\* Bounds and input sets

\* Number of client calls started in one run.
MaxCalls == 3

\* The strings callers pass as names and as config bodies (both are Go strings).
Str == {"a", "b"}

\* The clients (goroutines / client instances) that may exist.
AllProcs == {1, 2}

\* nil, of an error or of a []byte.
Nil == "<nil>"

\* Failures the fault-injecting transport can produce on any round trip.
Faults == {"HTTP 500"}
Outcomes == {"ok"} \cup Faults

-----------------------------------------------------------------------------
\* The Api descriptor (package api, consumed by the client)

AlertingProfile == [id |-> "alerting-profile", path |-> "/api/config/v1/alertingProfiles"]
Extension == [id |-> "extension", path |-> "/api/config/v1/extensions"]
Apis == {AlertingProfile, Extension}

GetId(api) == api.id
GetUrlFromEnvironmentUrl(api, environmentUrl) == environmentUrl \o api.path

\* NewDynatraceClient(environmentUrl, token)
EnvironmentUrl == "https://env"
NewDynatraceClient(environmentUrl, token) ==
    [environmentUrl |-> environmentUrl, token |-> token, client |-> "&http.Client{}"]

Urls == {GetUrlFromEnvironmentUrl(api, EnvironmentUrl) : api \in Apis}

-----------------------------------------------------------------------------
\* The remote server and the HTTP layer

\* Ids the server hands out, in order of creation.
IdTable == <<"1", "2", "3", "4", "5", "6">>

\* One round trip as the transport saw it: the request, and the status of
\* the answer (500 for an injected failure).
Request(method, url, encoding, body, status) ==
    [method |-> method, url |-> url, encoding |-> encoding, body |-> body,
     status |-> status]

StatusOf(f) == IF f = "ok" THEN 200 ELSE 500

\* The (id, name) summaries a list call returns, in list order.
ListValues(objs) == [i \in 1..Len(objs) |-> [id |-> objs[i].id, name |-> objs[i].name]]

HasId(objs, id) == \E i \in 1..Len(objs) : objs[i].id = id
IndexOfId(objs, id) == CHOOSE i \in 1..Len(objs) : objs[i].id = id

\* GET <collection>/<id>: the Response of the HTTP layer.
get(objs, id, f) ==
    IF f # "ok" THEN [StatusCode |-> StatusOf(f), Body |-> ""]
    ELSE IF HasId(objs, id)
         THEN [StatusCode |-> 200, Body |-> objs[IndexOfId(objs, id)].body]
         ELSE [StatusCode |-> 404, Body |-> ""]

\* GET <collection>: the values of the family, or the error of the call.
getExistingValuesFromEndpoint(objs, f) ==
    IF f = "ok" THEN [values |-> ListValues(objs), err |-> Nil]
    ELSE [values |-> <<>>, err |-> f]

\* Linear scan: the id of the first value with that name, "" when there is none.
ScanForName(values, name) ==
    IF \E i \in 1..Len(values) : values[i].name = name
    THEN values[CHOOSE i \in 1..Len(values) :
                    /\ values[i].name = name
                    /\ \A j \in 1..(i - 1) : values[j].name # name].id
    ELSE ""

getObjectIdIfAlreadyExists(objs, name, f) ==
    LET r == getExistingValuesFromEndpoint(objs, f)
    IN IF r.err # Nil THEN [id |-> "", err |-> r.err]
       ELSE [id |-> ScanForName(r.values, name), err |-> Nil]

\* POST <collection>: the server stores the payload under a fresh id; the
\* object is listed under the name the helper upserts (its objectName).
ServerPost(objs, id, objectName, payload) ==
    Append(objs, [id |-> id, name |-> objectName, body |-> payload])

\* PUT <collection>/<id>: replace in place.
ServerPut(objs, id, objectName, payload) ==
    [objs EXCEPT ![IndexOfId(objs, id)] =
        [id |-> id, name |-> objectName, body |-> payload]]

\* DELETE <collection>/<id>.
ServerDelete(objs, id) ==
    LET k == IndexOfId(objs, id)
    IN [i \in 1..(Len(objs) - 1) |-> IF i < k THEN objs[i] ELSE objs[i + 1]]

NoEntity == [Id |-> "", Name |-> ""]

\* The write of an upsert when the transport does not fail: a POST when the
\* scan found nothing, a PUT to the id it found otherwise (404 when that id is
\* gone).
WriteEffect(objs, nid, found, objectName, payload) ==
    IF found = ""
    THEN [objs |-> ServerPost(objs, IdTable[nid], objectName, payload),
          nextId |-> nid + 1, status |-> 200,
          entity |-> [Id |-> IdTable[nid], Name |-> objectName], err |-> Nil]
    ELSE IF HasId(objs, found)
    THEN [objs |-> ServerPut(objs, found, objectName, payload),
          nextId |-> nid, status |-> 200,
          entity |-> [Id |-> found, Name |-> objectName], err |-> Nil]
    ELSE [objs |-> objs, nextId |-> nid, status |-> 404,
          entity |-> NoEntity, err |-> "HTTP 404"]

\* The DELETE of a delete when the transport does not fail.
DeleteEffect(objs, found) ==
    IF HasId(objs, found)
    THEN [objs |-> ServerDelete(objs, found), status |-> 200, err |-> Nil]
    ELSE [objs |-> objs, status |-> 404, err |-> "HTTP 404"]

-----------------------------------------------------------------------------
\* dynatraceClientImpl: the code of the methods

\* Faulty variant: exists is derived from the error, not from the id.
ExistsResult_FromErr(existingObjectId, err) ==
    [exists |-> err = Nil, id |-> existingObjectId, err |-> err]

\* Faulty variant: the comparison with "" is inverted.
ExistsResult_Inverted(existingObjectId, err) ==
    [exists |-> existingObjectId = "", id |-> existingObjectId, err |-> err]

\* Faulty variant: the id is not handed back.
ExistsResult_NoId(existingObjectId, err) ==
    [exists |-> existingObjectId # "", id |-> "", err |-> err]

\* ExistsByName: return existingObjectId != "", existingObjectId, err
ExistsResult(existingObjectId, err) ==
    [exists |-> existingObjectId # "", id |-> existingObjectId, err |-> err]

\* ReadByName: errors.New("404 - no config found with name " + name)
NotFoundError(name) == "404 - no config found with name " \o name

\* Faulty variant: the "if !exists" branch is missing.
ReadByNameNext_NoExistsCheck(exists, id, err, name) ==
    IF err # Nil THEN [step |-> "return", body |-> Nil, err |-> err]
    ELSE [step |-> "ReadById", body |-> Nil, err |-> Nil]

\* Faulty variant: the "if err != nil" branch is missing.
ReadByNameNext_NoErrCheck(exists, id, err, name) ==
    IF ~exists THEN [step |-> "return", body |-> Nil, err |-> NotFoundError(name)]
    ELSE [step |-> "ReadById", body |-> Nil, err |-> Nil]

\* ReadByName after d.ExistsByName: what the method does next.
ReadByNameNext(exists, id, err, name) ==
    IF err # Nil THEN [step |-> "return", body |-> Nil, err |-> err]
    ELSE IF ~exists THEN [step |-> "return", body |-> Nil, err |-> NotFoundError(name)]
    ELSE [step |-> "ReadById", body |-> Nil, err |-> Nil]

\* Faulty variant: the id is not appended to the collection endpoint.
ReadByIdUrl_NoId(api, environmentUrl, id) ==
    GetUrlFromEnvironmentUrl(api, environmentUrl)

\* ReadById: url := api.GetUrlFromEnvironmentUrl(d.environmentUrl) + "/" + id
ReadByIdUrl(api, environmentUrl, id) ==
    GetUrlFromEnvironmentUrl(api, environmentUrl) \o "/" \o id

\* ReadById: return response.Body, nil
ReadByIdResult(response) == [body |-> response.Body, err |-> Nil]

\* Faulty variant: the family identifier is compared with another string.
UpsertByNameImpl_Typo(api, json, name, environmentUrl) ==
    [extension  |-> GetId(api) = "extensions",
     url        |-> GetUrlFromEnvironmentUrl(api, environmentUrl),
     objectName |-> name,
     configType |-> GetId(api),
     configJson |-> json]

\* Faulty variant: every family is sent through uploadExtension.
UpsertByNameImpl_AlwaysUpload(api, json, name, environmentUrl) ==
    [extension  |-> TRUE,
     url        |-> GetUrlFromEnvironmentUrl(api, environmentUrl),
     objectName |-> name,
     configType |-> GetId(api),
     configJson |-> json]

\* Faulty variant: the test of the family identifier is inverted.
UpsertByNameImpl_Inverted(api, json, name, environmentUrl) ==
    [extension  |-> GetId(api) # "extension",
     url        |-> GetUrlFromEnvironmentUrl(api, environmentUrl),
     objectName |-> name,
     configType |-> GetId(api),
     configJson |-> json]

\* UpsertByName(api, json, name): the parameters of the implementation, in
\* their order, and what the body hands to uploadExtension (url, name, json) or
\* upsertDynatraceObject (url, name, api.GetId(), json).
UpsertByNameImpl(api, json, name, environmentUrl) ==
    [extension  |-> GetId(api) = "extension",
     url        |-> GetUrlFromEnvironmentUrl(api, environmentUrl),
     objectName |-> name,
     configType |-> GetId(api),
     configJson |-> json]

\* Faulty variant: api.GetId() is handed over in the place of name as well.
DeleteByNameImpl_IdForName(api, name, environmentUrl) ==
    [configType |-> GetId(api),
     name       |-> GetId(api),
     url        |-> GetUrlFromEnvironmentUrl(api, environmentUrl)]

\* Faulty variant: api.GetId() and name are handed over in the other order.
DeleteByNameImpl_Swapped(api, name, environmentUrl) ==
    [configType |-> name,
     name       |-> GetId(api),
     url        |-> GetUrlFromEnvironmentUrl(api, environmentUrl)]

\* DeleteByName: deleteDynatraceObject(d.client, api.GetId(), name, url, d.token)
DeleteByNameImpl(api, name, environmentUrl) ==
    [configType |-> GetId(api),
     name       |-> name,
     url        |-> GetUrlFromEnvironmentUrl(api, environmentUrl)]

-----------------------------------------------------------------------------
\* State

VARIABLES
    remote,   \* collection URL -> the objects of the family, in list order
    nextId,   \* index into IdTable of the next id the server assigns
    session,  \* client -> its dynatraceClientImpl fields
    procs,    \* the clients of this run
    pc,       \* client -> "idle" or the round trip its call makes next
    cur,      \* client -> its call in flight, or its last completed call
    hist,     \* the calls completed in a row on the same (api, name)
    ncalls    \* calls started

vars == <<remote, nextId, session, procs, pc, cur, hist, ncalls>>

\* A call through the DynatraceClient interface: a1 and a2 are its second and
\* third argument.
\* seq numbers the calls of a run; with is the seq of the other client's call
\* in flight when this one started (0: none); pre is the remote state then.
NewCall(p, op, api, a1, a2) ==
    [seq |-> ncalls + 1, proc |-> p, op |-> op, api |-> api, a1 |-> a1, a2 |-> a2,
     with |-> IF \E q \in procs \ {p} : pc[q] # "idle"
              THEN cur[CHOOSE q \in procs \ {p} : pc[q] # "idle"].seq ELSE 0,
     pre |-> [remote |-> remote, nextId |-> nextId],
     http |-> <<>>, found |-> "", values |-> <<>>, exists |-> FALSE, id |-> "",
     body |-> Nil, entity |-> NoEntity, err |-> Nil]

NoCall ==
    [seq |-> 0, proc |-> 0, op |-> "none", api |-> AlertingProfile, a1 |-> "", a2 |-> "",
     with |-> 0, pre |-> [remote |-> [u \in Urls |-> <<>>], nextId |-> 1],
     http |-> <<>>, found |-> "", values |-> <<>>, exists |-> FALSE, id |-> "",
     body |-> Nil, entity |-> NoEntity, err |-> Nil]

SameTarget(c, d) == c.api = d.api /\ c.a1 = d.a1

CanCall(p) == p \in procs /\ pc[p] = "idle" /\ ncalls < MaxCalls

\* The call goes on to its second round trip.
Continue(p, c, step) ==
    /\ pc' = [pc EXCEPT ![p] = step]
    /\ cur' = [cur EXCEPT ![p] = c]
    /\ UNCHANGED hist

\* The call returns.
Complete(p, c) ==
    /\ pc' = [pc EXCEPT ![p] = "idle"]
    /\ cur' = [cur EXCEPT ![p] = c]
    /\ hist' = IF hist # <<>> /\ SameTarget(hist[Len(hist)], c)
               THEN Append(hist, c) ELSE <<c>>

InitState ==
    /\ remote = [u \in Urls |-> <<>>]
    /\ nextId = 1
    /\ session = [p \in AllProcs |-> NewDynatraceClient(EnvironmentUrl, "token")]
    /\ pc = [p \in AllProcs |-> "idle"]
    /\ cur = [p \in AllProcs |-> NoCall]
    /\ hist = <<>>
    /\ ncalls = 0

\* One client, its calls one after the other.
Init == InitState /\ procs = {1}

\* Two clients against the same environment.
InitConc == InitState /\ procs = AllProcs

\* Names looked up in a family that other tools filled: the names of the
\* listings below, and names that differ from them in case or in a trailing
\* blank only.
LookupNames == {"A", "B", "C", "Foo", "foo", "Foo "}

Obj(id, name) == [id |-> id, name |-> name, body |-> "a"]

\* What the family may hold when the client is created: nothing, objects of
\* different names, names that differ in case or in a trailing blank only,
\* and objects of the same name.  Every object has an id the server assigned.
Listings ==
    { <<>>,
      <<Obj("1", "A"), Obj("2", "B")>>,
      <<Obj("1", "Foo")>>,
      <<Obj("1", "Foo "), Obj("2", "foo")>>,
      <<Obj("1", "foo"), Obj("2", "Foo"), Obj("3", "Foo")>>,
      <<Obj("2", "B"), Obj("1", "A"), Obj("3", "B")>>,
      <<Obj("3", "A"), Obj("1", "A")>> }

\* One client on an environment whose alerting profiles are one of Listings.
InitLookup ==
    /\ \E l \in Listings :
          remote = [u \in Urls |->
                      IF u = GetUrlFromEnvironmentUrl(AlertingProfile, EnvironmentUrl)
                      THEN l ELSE <<>>]
    /\ nextId = Len(IdTable) - 2
    /\ session = [p \in AllProcs |-> NewDynatraceClient(EnvironmentUrl, "token")]
    /\ pc = [p \in AllProcs |-> "idle"]
    /\ cur = [p \in AllProcs |-> NoCall]
    /\ hist = <<>>
    /\ ncalls = 0
    /\ procs = {1}

-----------------------------------------------------------------------------
\* Operations

List(p, api) ==
    /\ CanCall(p)
    /\ \E f \in Outcomes :
        LET url == GetUrlFromEnvironmentUrl(api, session[p].environmentUrl)
            r == getExistingValuesFromEndpoint(remote[url], f)
            c == [NewCall(p, "List", api, "", "") EXCEPT
                     !.http = <<Request("GET", url, "", "", StatusOf(f))>>,
                     !.values = r.values, !.err = r.err]
        IN Complete(p, c)
    /\ ncalls' = ncalls + 1
    /\ UNCHANGED <<remote, nextId, session, procs>>

ExistsByName(p, api, name) ==
    /\ CanCall(p)
    /\ \E f \in Outcomes :
        LET url == GetUrlFromEnvironmentUrl(api, session[p].environmentUrl)
            r == getObjectIdIfAlreadyExists(remote[url], name, f)
            res == ExistsResult(r.id, r.err)
            c == [NewCall(p, "ExistsByName", api, name, "") EXCEPT
                     !.http = <<Request("GET", url, "", "", StatusOf(f))>>,
                     !.exists = res.exists, !.id = res.id, !.err = res.err]
        IN Complete(p, c)
    /\ ncalls' = ncalls + 1
    /\ UNCHANGED <<remote, nextId, session, procs>>

\* ReadByName up to the return of d.ExistsByName.
ReadByName(p, api, name) ==
    /\ CanCall(p)
    /\ \E f \in Outcomes :
        LET url == GetUrlFromEnvironmentUrl(api, session[p].environmentUrl)
            r == getObjectIdIfAlreadyExists(remote[url], name, f)
            res == ExistsResult(r.id, r.err)
            nxt == ReadByNameNext(res.exists, res.id, res.err, name)
            c == [NewCall(p, "ReadByName", api, name, "") EXCEPT
                     !.http = <<Request("GET", url, "", "", StatusOf(f))>>,
                     !.found = res.id, !.body = nxt.body, !.err = nxt.err]
        IN IF nxt.step = "return" THEN Complete(p, c)
           ELSE Continue(p, c, "ReadByName_ReadById")
    /\ ncalls' = ncalls + 1
    /\ UNCHANGED <<remote, nextId, session, procs>>

\* ReadByName: return d.ReadById(api, id)
ReadByNameReadById(p) ==
    /\ p \in procs /\ pc[p] = "ReadByName_ReadById"
    /\ \E f \in Outcomes :
        LET c == cur[p]
            coll == GetUrlFromEnvironmentUrl(c.api, session[p].environmentUrl)
            url == ReadByIdUrl(c.api, session[p].environmentUrl, c.found)
            response == get(remote[coll], c.found, f)
            res == ReadByIdResult(response)
        IN Complete(p, [c EXCEPT
               !.http = Append(@, Request("GET", url, "", "", response.StatusCode)),
               !.body = res.body, !.err = res.err])
    /\ UNCHANGED <<remote, nextId, session, procs, ncalls>>

ReadById(p, api, id) ==
    /\ CanCall(p)
    /\ \E f \in Outcomes :
        LET coll == GetUrlFromEnvironmentUrl(api, session[p].environmentUrl)
            url == ReadByIdUrl(api, session[p].environmentUrl, id)
            response == get(remote[coll], id, f)
            res == ReadByIdResult(response)
            c == [NewCall(p, "ReadById", api, id, "") EXCEPT
                     !.http = <<Request("GET", url, "", "", response.StatusCode)>>,
                     !.body = res.body, !.err = res.err]
        IN Complete(p, c)
    /\ ncalls' = ncalls + 1
    /\ UNCHANGED <<remote, nextId, session, procs>>

\* uploadExtension(client, url, name, json, token): one multipart upload, which
\* creates the extension of that name or replaces it.
uploadExtension(p, c, d, f) ==
    LET objs == remote[d.url]
        w == WriteEffect(objs, nextId, ScanForName(ListValues(objs), d.objectName),
                         d.objectName, d.configJson)
        req == Request("POST", d.url, "multipart", d.configJson, StatusOf(f))
    IN IF f # "ok"
       THEN /\ Complete(p, [c EXCEPT !.http = <<req>>, !.err = f])
            /\ UNCHANGED <<remote, nextId>>
       ELSE /\ Complete(p, [c EXCEPT !.http = <<req>>, !.entity = w.entity])
            /\ remote' = [remote EXCEPT ![d.url] = w.objs]
            /\ nextId' = w.nextId

\* upsertDynatraceObject up to the return of getObjectIdIfAlreadyExists.
upsertDynatraceObject(p, c, d, f) ==
    LET req == Request("GET", d.url, "", "", StatusOf(f))
        r == getObjectIdIfAlreadyExists(remote[d.url], d.objectName, f)
    IN /\ IF r.err # Nil
          THEN Complete(p, [c EXCEPT !.http = <<req>>, !.err = r.err])
          ELSE Continue(p, [c EXCEPT !.http = <<req>>, !.found = r.id], "Upsert_write")
       /\ UNCHANGED <<remote, nextId>>

\* The call client.UpsertByName(api, name, json) of the interface.
UpsertByName(p, api, name, json) ==
    /\ CanCall(p)
    /\ \E f \in Outcomes :
        LET c == NewCall(p, "UpsertByName", api, name, json)
            d == UpsertByNameImpl(api, name, json, session[p].environmentUrl)
        IN IF d.extension THEN uploadExtension(p, c, d, f)
           ELSE upsertDynatraceObject(p, c, d, f)
    /\ ncalls' = ncalls + 1
    /\ UNCHANGED <<session, procs>>

\* upsertDynatraceObject: the POST or the PUT.
UpsertWrite(p) ==
    /\ p \in procs /\ pc[p] = "Upsert_write"
    /\ \E f \in Outcomes :
        LET c == cur[p]
            d == UpsertByNameImpl(c.api, c.a1, c.a2, session[p].environmentUrl)
            w == WriteEffect(remote[d.url], nextId, c.found, d.objectName, d.configJson)
            status == IF f = "ok" THEN w.status ELSE StatusOf(f)
            req == IF c.found = ""
                   THEN Request("POST", d.url, "json", d.configJson, status)
                   ELSE Request("PUT", d.url \o "/" \o c.found, "json", d.configJson, status)
        IN IF f = "ok"
           THEN /\ remote' = [remote EXCEPT ![d.url] = w.objs]
                /\ nextId' = w.nextId
                /\ Complete(p, [c EXCEPT !.http = Append(@, req),
                                         !.entity = w.entity, !.err = w.err])
           ELSE /\ Complete(p, [c EXCEPT !.http = Append(@, req), !.err = f])
                /\ UNCHANGED <<remote, nextId>>
    /\ UNCHANGED <<session, procs, ncalls>>

\* deleteDynatraceObject up to the return of getObjectIdIfAlreadyExists; with
\* no object of that name it issues no DELETE and returns nil or NotFound.
DeleteByName(p, api, name) ==
    /\ CanCall(p)
    /\ \E f \in Outcomes :
        LET d == DeleteByNameImpl(api, name, session[p].environmentUrl)
            r == getObjectIdIfAlreadyExists(remote[d.url], d.name, f)
            c == [NewCall(p, "DeleteByName", api, name, "") EXCEPT
                     !.http = <<Request("GET", d.url, "", "", StatusOf(f))>>,
                     !.found = r.id]
        IN IF r.err # Nil THEN Complete(p, [c EXCEPT !.err = r.err])
           ELSE IF r.id = ""
                THEN \E e \in {Nil, NotFoundError(d.name)} :
                        Complete(p, [c EXCEPT !.err = e])
                ELSE Continue(p, c, "Delete_delete")
    /\ ncalls' = ncalls + 1
    /\ UNCHANGED <<remote, nextId, session, procs>>

\* deleteDynatraceObject: the DELETE.
DeleteDelete(p) ==
    /\ p \in procs /\ pc[p] = "Delete_delete"
    /\ \E f \in Outcomes :
        LET c == cur[p]
            d == DeleteByNameImpl(c.api, c.a1, session[p].environmentUrl)
            w == DeleteEffect(remote[d.url], c.found)
            status == IF f = "ok" THEN w.status ELSE StatusOf(f)
            req == Request("DELETE", d.url \o "/" \o c.found, "", "", status)
        IN IF f = "ok"
           THEN /\ remote' = [remote EXCEPT ![d.url] = w.objs]
                /\ Complete(p, [c EXCEPT !.http = Append(@, req), !.err = w.err])
           ELSE /\ Complete(p, [c EXCEPT !.http = Append(@, req), !.err = f])
                /\ UNCHANGED remote
    /\ UNCHANGED <<nextId, session, procs, ncalls>>

\* Ids a caller may ask ReadById for: those assigned so far and the next one.
KnownIds == {IdTable[i] : i \in 1..nextId}

Next ==
    \/ \E p \in AllProcs, api \in Apis : List(p, api)
    \/ \E p \in AllProcs, api \in Apis, name \in Str : ExistsByName(p, api, name)
    \/ \E p \in AllProcs, api \in Apis, name \in Str : ReadByName(p, api, name)
    \/ \E p \in AllProcs : ReadByNameReadById(p)
    \/ \E p \in AllProcs, api \in Apis, id \in KnownIds : ReadById(p, api, id)
    \/ \E p \in AllProcs, api \in Apis, name \in Str, json \in Str :
          UpsertByName(p, api, name, json)
    \/ \E p \in AllProcs : UpsertWrite(p)
    \/ \E p \in AllProcs, api \in Apis, name \in Str : DeleteByName(p, api, name)
    \/ \E p \in AllProcs : DeleteDelete(p)

\* The families whose upsert is a check and a write in two round trips.
GenericApis == {api \in Apis : GetId(api) # "extension"}

\* The writers alone, on those families, for runs of concurrent clients.
NextConc ==
    \/ \E p \in AllProcs, api \in GenericApis, name \in Str, json \in Str :
          UpsertByName(p, api, name, json)
    \/ \E p \in AllProcs : UpsertWrite(p)
    \/ \E p \in AllProcs, api \in GenericApis, name \in Str : DeleteByName(p, api, name)
    \/ \E p \in AllProcs : DeleteDelete(p)

\* Lookups by name in a family that already holds objects.
NextLookup ==
    \/ \E p \in AllProcs, api \in GenericApis : List(p, api)
    \/ \E p \in AllProcs, api \in GenericApis, name \in LookupNames :
          ExistsByName(p, api, name)

\* The clients call in turns: a call starts when no call is in flight, and the
\* client that made the last call is not the one that makes the next.
Turn(p) ==
    /\ \A q \in procs : pc[q] = "idle"
    /\ IF ncalls = 0 THEN p = 1 ELSE cur[p].seq # ncalls

\* The by-name operations of two clients, one call after the other.
NextTurns ==
    \/ \E p \in AllProcs, api \in Apis, name \in Str :
          Turn(p) /\ ExistsByName(p, api, name)
    \/ \E p \in AllProcs, api \in Apis, name \in Str :
          Turn(p) /\ ReadByName(p, api, name)
    \/ \E p \in AllProcs : ReadByNameReadById(p)
    \/ \E p \in AllProcs, api \in Apis, name \in Str, json \in Str :
          Turn(p) /\ UpsertByName(p, api, name, json)
    \/ \E p \in AllProcs : UpsertWrite(p)
    \/ \E p \in AllProcs, api \in Apis, name \in Str :
          Turn(p) /\ DeleteByName(p, api, name)
    \/ \E p \in AllProcs : DeleteDelete(p)

-----------------------------------------------------------------------------
\* Vocabulary of the properties

\* The collection endpoint a call addresses.
Url(c) == GetUrlFromEnvironmentUrl(c.api, EnvironmentUrl)

\* Positions of the objects listed under a name.
Named(objs, n) == {i \in 1..Len(objs) : objs[i].name = n}

Generic(c) == GetId(c.api) # "extension"
Ok(c) == c.err = Nil
Returned(p) == p \in procs /\ pc[p] = "idle" /\ cur[p].seq # 0

IsListGet(r, c) == r.method = "GET" /\ r.url = Url(c)
IsGetById(r, c) == r.method = "GET" /\ r.url # Url(c)
ListSucceeded(c) == c.http # <<>> /\ IsListGet(c.http[1], c) /\ c.http[1].status = 200
ListFailed(c) == c.http # <<>> /\ IsListGet(c.http[1], c) /\ c.http[1].status # 200

\* The objects of the call's family when the call started.
Before(c) == c.pre.remote[Url(c)]

\* The last k calls of hist are hist[Len(hist) - k + 1 .. Len(hist)].
Nth(k) == hist[Len(hist) - k + 1]

-----------------------------------------------------------------------------
\* C1: after UpsertByName(api, name, bodyA) and then UpsertByName(api, name,
\* bodyB) both succeed on a non-extension family, one after the other with no
\* other writer, the family holds exactly one object of that name, its content
\* is bodyB and its id is the id the first call created.
C1_UpsertTwiceOneObject ==
    (/\ Len(hist) >= 2
     /\ Nth(2).op = "UpsertByName" /\ Ok(Nth(2))
     /\ Nth(1).op = "UpsertByName" /\ Ok(Nth(1)) /\ Generic(Nth(1)))
    => LET objs == remote[Url(Nth(1))]
           name == Nth(1).a1
       IN /\ Cardinality(Named(objs, name)) = 1
          /\ \A i \in Named(objs, name) :
                /\ objs[i].body = Nth(1).a2
                /\ objs[i].id = Nth(2).entity.Id
                /\ objs[i].id = Nth(1).entity.Id

\* C2: on a non-extension family one UpsertByName issues one list GET and then
\* exactly one write: a POST to the collection when the list holds no object
\* of the requested name, a PUT to <collection>/<id> when it does, id being
\* the id the scan for that name returns.
C2_OneGetOneWrite ==
    \A p \in procs :
        (Returned(p) /\ cur[p].op = "UpsertByName" /\ Generic(cur[p])
            /\ ListSucceeded(cur[p]))
        => LET c == cur[p]
               id == ScanForName(ListValues(Before(c)), c.a1)
           IN /\ Len(c.http) = 2
              /\ IF id = ""
                 THEN c.http[2].method = "POST" /\ c.http[2].url = Url(c)
                 ELSE c.http[2].method = "PUT" /\ c.http[2].url = Url(c) \o "/" \o id

\* C3: a successful UpsertByName(api, name, body) on a name that was absent,
\* followed immediately by ExistsByName(api, name), gives (true, id, nil) with
\* id the id of the entity the upsert returned.
C3_UpsertThenExists ==
    (/\ Len(hist) >= 2
     /\ Nth(2).op = "UpsertByName" /\ Ok(Nth(2))
     /\ Named(Before(Nth(2)), Nth(2).a1) = {}
     /\ Nth(1).op = "ExistsByName" /\ ListSucceeded(Nth(1)))
    => /\ Nth(1).exists
       /\ Nth(1).id = Nth(2).entity.Id
       /\ Nth(1).err = Nil

\* C4: for a name with no object in the family and a list call that succeeds,
\* ExistsByName returns (false, "", nil), and ReadByName returns a NotFound
\* error carrying the name, no body, and issues no GET by id.
C4_AbsentName ==
    \A p \in procs :
        (Returned(p) /\ ListSucceeded(cur[p]) /\ Named(Before(cur[p]), cur[p].a1) = {})
        => LET c == cur[p]
           IN /\ c.op = "ExistsByName" =>
                    ~c.exists /\ c.id = "" /\ c.err = Nil
              /\ c.op = "ReadByName" =>
                    /\ c.err = "404 - no config found with name " \o c.a1
                    /\ c.body = Nil
                    /\ Len(c.http) = 1

\* An ExistsByName and then a ReadByName of a name that a non-empty family
\* does not list have returned.
C4_Witness ==
    /\ Len(hist) >= 2
    /\ Nth(2).op = "ExistsByName" /\ ListSucceeded(Nth(2)) /\ ~Nth(2).exists
    /\ Nth(1).op = "ReadByName" /\ ListSucceeded(Nth(1))
    /\ Named(Before(Nth(1)), Nth(1).a1) = {}
    /\ Before(Nth(1)) # <<>>
    /\ Nth(1).err # Nil

\* C5: when the list call fails, ExistsByName, ReadByName, UpsertByName and
\* DeleteByName return that transport error, issue no further HTTP call and
\* leave the remote objects unchanged.
C5_ListFailure ==
    \A p \in procs :
        (Returned(p) /\ ListFailed(cur[p])
            /\ cur[p].op \in {"ExistsByName", "ReadByName", "UpsertByName", "DeleteByName"})
        => /\ cur[p].err \in Faults
           /\ Len(cur[p].http) = 1
           /\ remote = cur[p].pre.remote
           /\ cur[p].body = Nil /\ cur[p].entity = NoEntity /\ ~cur[p].exists

\* A DeleteByName and then an UpsertByName of the same name, on a family that
\* holds objects, have both returned on a failed list call.
C5_Witness ==
    /\ Len(hist) >= 2
    /\ Nth(2).op = "DeleteByName" /\ ListFailed(Nth(2))
    /\ Nth(1).op = "UpsertByName" /\ ListFailed(Nth(1))
    /\ Before(Nth(1)) # <<>>

\* C6: UpsertByName on the extension family goes only through the upload
\* path (no list GET, no JSON POST or PUT), whether or not the object exists;
\* on every other family it goes only through the generic path (no upload).
C6_ExtensionRouting ==
    \A p \in procs :
        cur[p].op = "UpsertByName"
        => LET c == cur[p]
           IN IF GetId(c.api) = "extension"
              THEN /\ pc[p] = "idle"
                   /\ Len(c.http) = 1
                   /\ c.http[1].method = "POST" /\ c.http[1].encoding = "multipart"
              ELSE /\ \A i \in 1..Len(c.http) : c.http[i].encoding # "multipart"
                   /\ IsListGet(c.http[1], c)
                   /\ pc[p] = "idle" /\ Ok(c) => Len(c.http) = 2 /\ c.http[2].encoding = "json"

\* Two uploads of the same extension have succeeded, the second one on the
\* object the first one created.
C6_Witness ==
    /\ Len(hist) >= 2
    /\ Nth(2).op = "UpsertByName" /\ Ok(Nth(2)) /\ GetId(Nth(2).api) = "extension"
    /\ Nth(1).op = "UpsertByName" /\ Ok(Nth(1))
    /\ Nth(1).entity.Id = Nth(2).entity.Id
    /\ Len(remote[Url(Nth(1))]) = 1

\* C7: ReadById returns an error whenever its GET by id fails or answers with
\* a non-2xx status, and so does ReadByName when its GET by id fails.
C7_ReadByIdSurfacesFailure ==
    \A p \in procs :
        (/\ Returned(p) /\ cur[p].op \in {"ReadById", "ReadByName"}
         /\ IsGetById(cur[p].http[Len(cur[p].http)], cur[p])
         /\ cur[p].http[Len(cur[p].http)].status # 200)
        => cur[p].err # Nil

\* C8: on a non-extension family, after a successful UpsertByName(api, name,
\* body) and then a successful DeleteByName(api, name), with no other writer,
\* ExistsByName(api, name) returns exists = false and id = "".
C8_UpsertDeleteExists ==
    (/\ Len(hist) >= 3
     /\ Nth(3).op = "UpsertByName" /\ Ok(Nth(3)) /\ Generic(Nth(3))
     /\ Nth(2).op = "DeleteByName" /\ Ok(Nth(2))
     /\ Nth(1).op = "ExistsByName")
    => ~Nth(1).exists /\ Nth(1).id = ""

\* The upsert created the object, the delete removed that object with a
\* DELETE, and ExistsByName listed the family.
C8_Witness ==
    /\ Len(hist) >= 3
    /\ Nth(3).op = "UpsertByName" /\ Ok(Nth(3)) /\ Generic(Nth(3))
    /\ Named(Before(Nth(2)), Nth(2).a1) # {}
    /\ Nth(2).op = "DeleteByName" /\ Ok(Nth(2)) /\ Len(Nth(2).http) = 2
    /\ Nth(2).found = Nth(3).entity.Id
    /\ Nth(1).op = "ExistsByName" /\ ListSucceeded(Nth(1)) /\ ~Nth(1).exists

\* q's call started while p's call was between its two round trips.
Overlap(p, q) == cur[p].seq # 0 /\ cur[q].with = cur[p].seq

Writers == {"UpsertByName", "DeleteByName"}

\* C9: two concurrent UpsertByName calls for the same (api, name) are not
\* atomic between the existence check and the write.  The check and the write
\* of every upsert are two separate round trips, and the write is the one the
\* call's own scan chose (a POST when it found nothing, a PUT to the id it
\* found), whatever the other client did to the family in between.
C9_NotAtomic ==
    \A p \in procs :
        (Returned(p) /\ cur[p].op = "UpsertByName" /\ Generic(cur[p]))
        => LET c == cur[p]
           IN /\ IsListGet(c.http[1], c)
              /\ c.http[1].status = 200 =>
                    /\ Len(c.http) = 2
                    /\ IF c.found = ""
                       THEN c.http[2].method = "POST" /\ c.http[2].url = Url(c)
                       ELSE /\ c.http[2].method = "PUT"
                            /\ c.http[2].url = Url(c) \o "/" \o c.found

\* Both calls saw the name absent and both POSTed: the family holds two
\* objects of the same name.
C9_Duplicates ==
    \E p, q \in procs :
        /\ p # q /\ Returned(p) /\ Returned(q) /\ Overlap(p, q)
        /\ cur[p].op = "UpsertByName" /\ cur[q].op = "UpsertByName"
        /\ cur[p].api = cur[q].api /\ cur[p].a1 = cur[q].a1
        /\ cur[p].found = "" /\ cur[q].found = "" /\ Ok(cur[p]) /\ Ok(cur[q])
        /\ cur[p].http[2].method = "POST" /\ cur[q].http[2].method = "POST"
        /\ \E i, j \in 1..Len(remote[Url(cur[p])]) :
              LET objs == remote[Url(cur[p])]
              IN /\ i # j /\ objs[i].name = objs[j].name
                 /\ objs[i].id = cur[p].entity.Id /\ objs[j].id = cur[q].entity.Id

\* The PUT of an upsert went to an id that a concurrent DeleteByName had
\* already removed.
C9_StalePut ==
    \E p, q \in procs :
        /\ p # q /\ Returned(p) /\ Returned(q) /\ (Overlap(p, q) \/ Overlap(q, p))
        /\ cur[p].op = "UpsertByName" /\ cur[q].op = "DeleteByName"
        /\ Len(cur[p].http) = 2 /\ Len(cur[q].http) = 2
        /\ cur[p].http[2].method = "PUT" /\ cur[p].http[2].status = 404
        /\ cur[q].http[2].method = "DELETE" /\ cur[q].http[2].status = 200
        /\ cur[p].http[2].url = cur[q].http[2].url

\* A writer call run alone, from its first round trip to its last, with no
\* transport failure: st is the family's objects and the server's next id.
SeqCall(st, c) ==
    IF c.op = "UpsertByName"
    THEN LET d == UpsertByNameImpl(c.api, c.a1, c.a2, EnvironmentUrl)
             w == WriteEffect(st.objs, st.nextId,
                              ScanForName(ListValues(st.objs), d.objectName),
                              d.objectName, d.configJson)
         IN [objs |-> w.objs, nextId |-> w.nextId]
    ELSE LET d == DeleteByNameImpl(c.api, c.a1, EnvironmentUrl)
             id == ScanForName(ListValues(st.objs), d.name)
         IN IF id = "" THEN st
            ELSE [objs |-> DeleteEffect(st.objs, id).objs, nextId |-> st.nextId]

\* C10: concurrent UpsertByName / DeleteByName calls on different names of a
\* family are safe: whatever the interleaving, the final remote state is the
\* one some sequential order of the two calls produces, each upserted name
\* ends with exactly one object holding its own body, and no call writes or
\* deletes the object of another name.
C10_DifferentNamesSafe ==
    \A p, q \in procs :
        (/\ p # q /\ Returned(p) /\ Returned(q) /\ Overlap(p, q)
         /\ cur[p].with = 0 /\ cur[q].seq = cur[p].seq + 1 /\ ncalls = cur[q].seq
         /\ cur[p].op \in Writers /\ cur[q].op \in Writers
         /\ cur[p].api = cur[q].api /\ cur[p].a1 # cur[q].a1
         /\ Ok(cur[p]) /\ Ok(cur[q]))
        => LET st0 == [objs |-> Before(cur[p]), nextId |-> cur[p].pre.nextId]
               final == [objs |-> remote[Url(cur[p])], nextId |-> nextId]
           IN /\ final \in {SeqCall(SeqCall(st0, cur[p]), cur[q]),
                            SeqCall(SeqCall(st0, cur[q]), cur[p])}
              /\ \A c \in {cur[p], cur[q]} :
                    c.op = "UpsertByName" =>
                        /\ Cardinality(Named(final.objs, c.a1)) = 1
                        /\ \A i \in Named(final.objs, c.a1) : final.objs[i].body = c.a2
              /\ \A i \in 1..Len(st0.objs) :
                    st0.objs[i].name \notin {cur[p].a1, cur[q].a1}
                    => \E j \in 1..Len(final.objs) : final.objs[j] = st0.objs[i]

\* The first position of a non-empty set of positions.
FirstOf(S) == CHOOSE i \in S : \A j \in S : i <= j

\* C11: name resolution is an exact, case- and whitespace-sensitive match
\* against the listed names.  ExistsByName(api, n) returns (true, id, nil) if
\* and only if the list contains a Value whose name is exactly n, and id is
\* the id of the first such Value in list order; otherwise it returns
\* (false, "", nil).  For [{1,A},{2,B}], B gives (true, "2", nil) and C gives
\* (false, "", nil).
C11_ExactFirstMatch ==
    \A p \in procs :
        (Returned(p) /\ cur[p].op = "ExistsByName" /\ ListSucceeded(cur[p]))
        => LET c == cur[p]
               m == Named(Before(c), c.a1)
           IN /\ c.err = Nil
              /\ c.exists <=> m # {}
              /\ c.id = IF m = {} THEN "" ELSE Before(c)[FirstOf(m)].id
              /\ ListValues(Before(c)) = <<[id |-> "1", name |-> "A"], [id |-> "2", name |-> "B"]>>
                 => /\ c.a1 = "B" => c.exists /\ c.id = "2"
                    /\ c.a1 = "C" => ~c.exists /\ c.id = ""

\* A lookup of a name that two listed objects carry, listed after an object
\* whose name differs from it in case only, returned the id of the first of
\* the two.
C11_Witness ==
    \E p \in procs :
        /\ Returned(p) /\ cur[p].op = "ExistsByName" /\ ListSucceeded(cur[p])
        /\ cur[p].a1 = "Foo"
        /\ Cardinality(Named(Before(cur[p]), "Foo")) = 2
        /\ Before(cur[p])[1].name = "foo"
        /\ cur[p].exists /\ cur[p].id = "2"

\* The id a first-match scan of the call's family, as it was when the call
\* listed it, gives for a name.
Resolved(c, n) ==
    IF Named(Before(c), n) = {} THEN "" ELSE Before(c)[FirstOf(Named(Before(c), n))].id

\* C12: in a call UpsertByName(api, name, body) through the interface, name
\* is the lookup key of the existence scan and the object name of the upload
\* path, and body is the payload of the POST, PUT or upload: the two are not
\* exchanged on the way to the helper that writes.
C12_NameAndBodyNotExchanged ==
    \A p \in procs :
        (Returned(p) /\ cur[p].op = "UpsertByName")
        => LET c == cur[p]
           IN /\ \A i \in 1..Len(c.http) :
                    c.http[i].method \in {"POST", "PUT"} => c.http[i].body = c.a2
              /\ Generic(c) /\ ListSucceeded(c) => c.found = Resolved(c, c.a1)
              /\ Ok(c) => c.entity.Name = c.a1

\* The objects of a list that carry another name than n, in list order.
OtherNamed(objs, n) == SelectSeq(objs, LAMBDA o : o.name # n)

\* C13: DeleteByName(api, name) issues at most one DELETE, to
\* <collection>/<id> with id the id its own scan resolved for name, and it is
\* issued when the scan resolved one.  Objects of another name and objects of
\* another family are unchanged.  With no object of that name there is no
\* DELETE, the remote objects are unchanged and the result is nil or NotFound.
C13_DeleteFrame ==
    \A p \in procs :
        (Returned(p) /\ cur[p].op = "DeleteByName")
        => LET c == cur[p]
               id == Resolved(c, c.a1)
               dels == {i \in 1..Len(c.http) : c.http[i].method = "DELETE"}
           IN /\ \A i \in 1..Len(c.http) : c.http[i].method \in {"GET", "DELETE"}
              /\ Cardinality(dels) <= 1
              /\ \A i \in dels : id # "" /\ c.http[i].url = Url(c) \o "/" \o id
              /\ \A u \in Urls \ {Url(c)} : remote[u] = c.pre.remote[u]
              /\ OtherNamed(remote[Url(c)], c.a1) = OtherNamed(Before(c), c.a1)
              /\ Len(remote[Url(c)]) >= Len(Before(c)) - Cardinality(dels)
              /\ nextId = c.pre.nextId
              /\ ListSucceeded(c) /\ id # "" => Cardinality(dels) = 1
              /\ ListSucceeded(c) /\ id = "" =>
                    /\ dels = {}
                    /\ remote = c.pre.remote
                    /\ c.err \in {Nil, "404 - no config found with name " \o c.a1}

\* A DeleteByName removed the object of its name from a family that also
\* holds an object of another name, which is still there.
C13_Witness ==
    \E p \in procs :
        /\ Returned(p) /\ cur[p].op = "DeleteByName" /\ Ok(cur[p])
        /\ Len(cur[p].http) = 2 /\ cur[p].http[2].method = "DELETE"
        /\ cur[p].http[2].status = 200
        /\ Len(Before(cur[p])) = 2 /\ Len(remote[Url(cur[p])]) = 1
        /\ remote[Url(cur[p])][1].name # cur[p].a1
        /\ ~HasId(remote[Url(cur[p])], cur[p].found)

Reads == {"List", "ExistsByName", "ReadByName", "ReadById"}

\* C14: List, ExistsByName, ReadByName and ReadById issue only GET requests
\* (List and ExistsByName one list GET, ReadById one GET by id, ReadByName one
\* list GET and then at most one GET by id, of the id the scan resolved), and
\* leave the remote objects, their ids, names and bodies unchanged.
C14_ReadsOnlyGet ==
    \A p \in procs :
        cur[p].op \in Reads
        => LET c == cur[p]
           IN /\ \A i \in 1..Len(c.http) : c.http[i].method = "GET"
              /\ c.op \in {"List", "ExistsByName"} =>
                    Len(c.http) = 1 /\ IsListGet(c.http[1], c)
              /\ c.op = "ReadById" =>
                    Len(c.http) = 1 /\ c.http[1].url = Url(c) \o "/" \o c.a1
              /\ c.op = "ReadByName" =>
                    /\ Len(c.http) \in {1, 2} /\ IsListGet(c.http[1], c)
                    /\ Len(c.http) = 2 =>
                          c.found # "" /\ c.http[2].url = Url(c) \o "/" \o c.found
              /\ remote = c.pre.remote
              /\ nextId = c.pre.nextId

\* A ReadByName listed a family that holds an object of that name, read it by
\* its id and returned its body; an ExistsByName of the name came before it.
C14_Witness ==
    /\ Len(hist) >= 2
    /\ Nth(2).op = "ExistsByName" /\ Nth(2).exists
    /\ Nth(1).op = "ReadByName" /\ Ok(Nth(1)) /\ Len(Nth(1).http) = 2
    /\ Nth(1).http[2].status = 200
    /\ remote[Url(Nth(1))] # <<>>
    /\ \E i \in 1..Len(remote[Url(Nth(1))]) :
          /\ remote[Url(Nth(1))][i].id = Nth(1).found
          /\ remote[Url(Nth(1))][i].body = Nth(1).body

ByName == {"ExistsByName", "ReadByName", "UpsertByName", "DeleteByName"}

\* The string the scan of a call looks for: the string that reaches the method
\* in its parameter name, which is the second argument of the call and, for
\* UpsertByName, the third (client.go:60 against 128).
ScanKey(c) == IF c.op = "UpsertByName" THEN c.a2 ELSE c.a1

\* The id the scan of a call gave.
ScanResult(c) == IF c.op = "ExistsByName" THEN c.id ELSE c.found

\* The fields NewDynatraceClient sets.
SessionAtCreation ==
    [environmentUrl |-> "https://env", token |-> "token", client |-> "&http.Client{}"]

ErrOf(status) == IF status = 404 THEN "HTTP 404" ELSE "HTTP 500"

\* C16: no operation retries.  A call issues each of its HTTP calls at most
\* once, in the order list GET, write; a call that fails is the last one of its
\* operation; and when the POST or PUT of UpsertByName or the DELETE of
\* DeleteByName fails, the operation returns that error and no entity, and has
\* made no other change to the remote objects.
C16_NoRetry ==
    \A p \in procs :
        Returned(p)
        => LET c == cur[p]
               n == Len(c.http)
           IN /\ \A i, j \in 1..n :
                    i # j => <<c.http[i].method, c.http[i].url>>
                                # <<c.http[j].method, c.http[j].url>>
              /\ \A i \in 1..n : c.http[i].status # 200 => i = n
              /\ c.op = "UpsertByName" /\ ~Generic(c) => n = 1
              /\ c.op = "UpsertByName" /\ Generic(c) =>
                    /\ n \in {1, 2} /\ IsListGet(c.http[1], c)
                    /\ n = 2 => c.http[2].method \in {"POST", "PUT"}
              /\ c.op = "DeleteByName" =>
                    /\ n \in {1, 2} /\ IsListGet(c.http[1], c)
                    /\ n = 2 => c.http[2].method = "DELETE"
              /\ (/\ c.op \in Writers
                  /\ c.http[n].method \in {"POST", "PUT", "DELETE"}
                  /\ c.http[n].status # 200)
                 => /\ c.err = ErrOf(c.http[n].status)
                    /\ c.entity = NoEntity
                    /\ remote = c.pre.remote /\ nextId = c.pre.nextId

\* The PUT of an upsert failed, and then the DELETE of a delete of the same
\* name: each call returned the error after its two round trips, and the
\* object is as it was.
C16_Witness ==
    /\ Len(hist) >= 2
    /\ Nth(2).op = "UpsertByName" /\ Len(Nth(2).http) = 2
    /\ Nth(2).http[2].method = "PUT" /\ Nth(2).http[2].status = 500
    /\ Nth(2).err = "HTTP 500"
    /\ Nth(1).op = "DeleteByName" /\ Len(Nth(1).http) = 2
    /\ Nth(1).http[2].method = "DELETE" /\ Nth(1).http[2].status = 500
    /\ Nth(1).err = "HTTP 500"
    /\ remote = Nth(2).pre.remote

\* C17: on every return of ExistsByName, also with an error, exists is true
\* if and only if the id returned is not the empty string; an object the
\* server lists with an empty id is reported as not existing, as is any scan
\* that hands back the empty id, with or without an error.
C17_ExistsIffId ==
    /\ \A e \in {Nil} \cup Faults :
          ExistsResult("", e) = [exists |-> FALSE, id |-> "", err |-> e]
    /\ \A p \in procs :
        (Returned(p) /\ cur[p].op = "ExistsByName")
        => LET c == cur[p]
               m == Named(Before(c), c.a1)
           IN /\ c.exists <=> c.id # ""
              /\ c.err # Nil => ~c.exists
              /\ (ListSucceeded(c) /\ m # {} /\ Before(c)[FirstOf(m)].id = "")
                 => ~c.exists /\ c.id = "" /\ c.err = Nil

\* An ExistsByName returned the error of its list call, with exists false and
\* the empty id; the next one, of the same name, listed an object of that
\* name and returned true with its id.
C17_Witness ==
    /\ Len(hist) >= 2
    /\ Nth(2).op = "ExistsByName" /\ ListFailed(Nth(2)) /\ Nth(2).err # Nil
    /\ ~Nth(2).exists /\ Nth(2).id = ""
    /\ Nth(1).op = "ExistsByName" /\ ListSucceeded(Nth(1))
    /\ Named(Before(Nth(1)), Nth(1).a1) # {}
    /\ Nth(1).exists /\ Nth(1).id # "" /\ Nth(1).err = Nil

\* One client: its calls run one after the other, with no other writer.
Spec == Init /\ [][Next]_vars

\* Two clients whose UpsertByName / DeleteByName calls interleave.
SpecConc == InitConc /\ [][NextConc]_vars

\* One client looking names up in a family that already holds objects.
SpecLookup == InitLookup /\ [][NextLookup]_vars

\* Two clients whose by-name calls alternate.
SpecTurns == InitConc /\ [][NextTurns]_vars

====
